---- MODULE Spec2Model ----
(***************************************************************************)
(* Dividend dashboard: the quote cache (localStorage slot                   *)
(* 'yahoo_stock_cache'), the batched fetch with retry and backoff           *)
(* (src/src/api/yahooFinance.js) and the one-hour dashboard cache           *)
(* (src/src/main.js), and the dashboard that relies on the four-hour cache  *)
(* and reloads the page when its countdown ends (src/unnamed/part_001).     *)
(*                                                                          *)
(* Time is in milliseconds, as Date.now() gives it.  A stored JSON text is  *)
(* modelled by the value JSON.parse gives back for it; JSON.stringify turns *)
(* a Date object into an ISO string, and that conversion is modelled.       *)
(***************************************************************************)
EXTENDS Integers, Sequences, FiniteSets, TLC

VARIABLES
    now,      \* Date.now()
    cache,    \* localStorage['yahoo_stock_cache']
    args,     \* the arguments the caller passes to fetchStocksBatched
    run,      \* the activations of fetchStocksBatched, one record per run
    ncalls,   \* the number of calls of fetchStocksBatched started so far
    prev,     \* the call that returned before the current one
    page,     \* main.js: "loading" until DOMContentLoaded has been handled
    isUpdating,  \* main.js: let isUpdating
    panel,    \* main.js: which of #loading, #main-content, #error is displayed
    spinner,  \* main.js: the refresh button carries the class 'updating'
    stocksData,  \* main.js: let stocksData
    dash,     \* localStorage['dividend_dashboard_cache'] and its timestamp key
    ffd,      \* the activations of fetchFreshData (main.js) or of
              \* loadPortfolioData (part_001) awaiting a run
    timer,    \* part_001: when the setInterval callback is next due, 0: not set
    calc,     \* an activation of a pure function: its input and its result
    dca,      \* an activation of calculateDCAScenario: its parameters and locals
    worker    \* cloudflare-worker: a request, the fetches made for it, the answer

apiVars == <<now, cache, args, run, ncalls, prev>>
mainVars == <<page, isUpdating, panel, spinner, stocksData, dash, ffd>>
pureVars == <<calc, dca, worker>>
otherVars == <<timer, calc, dca, worker>>
vars == <<now, cache, args, run, ncalls, prev,
          page, isUpdating, panel, spinner, stocksData, dash, ffd, timer, calc, dca, worker>>

----------------------------------------------------------------------------
(* Bounds of the model *)

MaxTickers == 2     \* the longest ticker list passed
MaxBatchSize == 2   \* the largest batchSize passed
MaxRetries == 3     \* the largest retries passed
MaxCalls == 2       \* calls of fetchStocksBatched in one behaviour
MaxBatches == 4     \* cap on the chunks a non-terminating split loop builds
LATENCY == 100      \* time a request to the quote source takes
StartTime == 5000   \* Date.now() when the page starts
PageLoadTime == 400 \* time from location.reload() to the new document's script
MaxQuotes == 2      \* the most quotes or rows in one answer of a backend
MaxStocks == 3      \* the longest list passed to calculatePortfolioStats

(* Program constants *)

CACHE_DURATION == 4 * 60 * 60 * 1000
CACHE_EXPIRY == 1000 * 60 * 60
BACKGROUND_AGE == 5 * 60 * 1000
REFRESH_INTERVAL == 300000
DEFAULT_BATCH_SIZE == 50
DEFAULT_RETRIES == 3
BACKOFF_BASE == 1000
BATCH_DELAY == 500
API_URL == "https://dividend-dashboard.vercel.app/api/stocks"
PortfolioTickers == <<"AAPL", "O", "JNJ", "CNQ", "PEP">>

Runs == {1, 2}
\* The single caller of Spec uses the first run
Caller == CHOOSE r \in Runs : \A q \in Runs : r <= q

----------------------------------------------------------------------------
(* Values *)

Max(a, b) == IF a >= b THEN a ELSE b
Min(a, b) == IF a <= b THEN a ELSE b

\* A date field of a record: null, a Date object, or the ISO string of an
\* instant (what JSON.parse returns for a stringified Date).
NullDate == [t |-> "null", ms |-> 0]
DateObj(ms) == [t |-> "Date", ms |-> ms]
IsoString(ms) == [t |-> "string", ms |-> ms]

\* JSON.stringify followed by JSON.parse, on a date field: Date.prototype.toJSON
\* gives the ISO string; null and strings are kept.
JsonDate(d) == IF d.t = "Date" THEN IsoString(d.ms) ELSE d

JsonRecord(s) ==
    [ticker |-> s.ticker,
     exDividendDate |-> JsonDate(s.exDividendDate),
     dividendDate |-> JsonDate(s.dividendDate)]

\* JSON.parse(JSON.stringify(data)) of an array of stock records
JsonRoundTrip(data) == [k \in 1..Len(data) |-> JsonRecord(data[k])]

\* Array.prototype.slice(a, b) on a sequence (0-based, negative indices count
\* from the end)
SliceIndex(n, a) == IF a < 0 THEN Max(n + a, 0) ELSE Min(a, n)
Slice(s, a, b) ==
    LET from == SliceIndex(Len(s), a)
        to == SliceIndex(Len(s), b)
    IN  IF from < to THEN SubSeq(s, from + 1, to) ELSE <<>>

----------------------------------------------------------------------------
(* The quote source *)

\* The raw quote the API holds for a symbol: epoch seconds, 0 when absent
ExDividendOf(sym) == IF sym = "AAPL" THEN 1700 ELSE IF sym = "O" THEN 1750 ELSE 0
DividendOf(sym) == IF sym = "AAPL" THEN 1800 ELSE 0

RawQuote(sym) ==
    [symbol |-> sym, exDividendDate |-> ExDividendOf(sym), dividendDate |-> DividendOf(sym)]

\* data.quoteResponse.result of a successful answer for a chunk: a quote per
\* symbol asked, or no quote at all
SourceAnswers(chunk) ==
    { [k \in 1..Len(chunk) |-> RawQuote(chunk[k])], <<>> }

\* fetchStockQuotes, the mapping of one raw quote
MapQuote(stock) ==
    [ticker |-> stock.symbol,
     exDividendDate |-> IF stock.exDividendDate # 0
                        THEN DateObj(stock.exDividendDate * 1000) ELSE NullDate,
     dividendDate |-> IF stock.dividendDate # 0
                      THEN DateObj(stock.dividendDate * 1000) ELSE NullDate]

MapQuotes(result) == [k \in 1..Len(result) |-> MapQuote(result[k])]

ApiConfiguredInverted == API_URL = ""
isApiConfigured == API_URL # ""

----------------------------------------------------------------------------
(* The cache slot *)

NoEntry == [kind |-> "absent", data |-> <<>>, timestamp |-> 0]

\* setCachedData: the slot after JSON.stringify({data, timestamp: Date.now()})
CacheEntry(data, t) == [kind |-> "entry", data |-> JsonRoundTrip(data), timestamp |-> t]

\* Stored texts that setCachedData did not write: text that JSON.parse
\* rejects, and JSON objects without the data or without the timestamp
\* property (reading the missing property gives undefined)
Unparseable == [kind |-> "unparseable", data |-> <<>>, timestamp |-> 0]
NoDataProperty(t) == [kind |-> "nodata", data |-> <<>>, timestamp |-> t]
NoTimestampProperty(data) ==
    [kind |-> "notimestamp", data |-> JsonRoundTrip(data), timestamp |-> 0]

\* undef: the data property of the result is undefined
NullResult == [null |-> TRUE, undef |-> FALSE, data |-> <<>>, timestamp |-> 0, timeLeft |-> 0]

IsFresh(slot, t) == t - slot.timestamp < CACHE_DURATION

\* getCachedData at time t.  JSON.parse throws on unparseable text and the
\* catch returns null; with timestamp undefined, now - timestamp is NaN and
\* the comparison of line 36 is false
getCachedDataAt(slot, t) ==
    IF slot.kind \in {"absent", "unparseable", "notimestamp"} THEN NullResult
    ELSE IF IsFresh(slot, t)
         THEN [null |-> FALSE, undef |-> slot.kind = "nodata",
               data |-> slot.data, timestamp |-> slot.timestamp,
               timeLeft |-> CACHE_DURATION - (t - slot.timestamp)]
         ELSE NullResult

getCachedData == getCachedDataAt(cache, now)

\* nan: the four numbers of the result are NaN
NullTime ==
    [null |-> TRUE, nan |-> FALSE, hours |-> 0, minutes |-> 0, seconds |-> 0,
     milliseconds |-> 0]

TimeLeftExpiredStrict(timeLeft) == timeLeft < 0
TimeLeftExpired(timeLeft) == timeLeft <= 0

\* getTimeUntilNextUpdate at time t
\* With timestamp undefined timeLeft is NaN, NaN <= 0 is false, and line 85
\* returns an object of NaNs
getTimeUntilNextUpdateAt(slot, t) ==
    IF slot.kind \in {"absent", "unparseable"} THEN NullTime
    ELSE IF slot.kind = "notimestamp"
    THEN [null |-> FALSE, nan |-> TRUE, hours |-> 0, minutes |-> 0, seconds |-> 0,
          milliseconds |-> 0]
    ELSE LET timeLeft == CACHE_DURATION - (t - slot.timestamp)
         IN  IF TimeLeftExpired(timeLeft) THEN NullTime
             ELSE [null |-> FALSE, nan |-> FALSE,
                   hours |-> timeLeft \div (60 * 60 * 1000),
                   minutes |-> (timeLeft % (60 * 60 * 1000)) \div (60 * 1000),
                   seconds |-> (timeLeft % (60 * 1000)) \div 1000,
                   milliseconds |-> timeLeft]

getTimeUntilNextUpdate == getTimeUntilNextUpdateAt(cache, now)

----------------------------------------------------------------------------
(* fetchStocksBatched *)

\* An entry of a run's log: what the run did, and when
Ev(e, chunk, n, data, t) == [e |-> e, chunk |-> chunk, n |-> n, data |-> data, at |-> t]

IdleRun ==
    [pc |-> "idle", tickers |-> <<>>, batchSize |-> 0, retries |-> 0,
     forceRefresh |-> FALSE, batches |-> <<>>, splitI |-> 0, i |-> 0,
     attempts |-> 0, success |-> FALSE, results |-> <<>>, wake |-> 0,
     ret |-> <<>>, undef |-> FALSE, raised |-> FALSE, net |-> FALSE,
     startAt |-> 0, doneAt |-> 0,
     cacheAtStart |-> NoEntry, log |-> <<>>]

NoPrev == [valid |-> FALSE, ret |-> <<>>, forceRefresh |-> FALSE, wrote |-> FALSE,
           raised |-> FALSE]

Wrote(rr) == \E k \in 1..Len(rr.log) : rr.log[k].e = "write"

\* No run is inside synchronous code (the split loop runs without yielding)
NoneInSync == \A q \in Runs : run[q].pc # "split"

\* Lines 207-212: the cached data are returned
CacheHitInverted(force, c) == force /\ ~c.null
CacheHit(force, c) == ~force /\ ~c.null

\* Line 234 and line 248: another attempt follows the k-th failure
RetryAgainOffByOne(k, retries) == k <= retries
RetryAgain(k, retries) == k < retries

\* Line 251: the delay before the attempt that follows the k-th failure
BackoffDelayFixed(k) == BACKOFF_BASE
BackoffDelay(k) == BACKOFF_BASE * k

\* Line 243: the inter-batch delay follows the success of chunk i of n
PauseAfter(i, n) == i < n - 1

\* Line 239: results.push(...data)
PushAllFront(results, data) == data \o results
PushAll(results, data) == results \o data

\* Line 262: the accumulated results are cached
ShouldCacheInverted(results) == Len(results) = 0
ShouldCache(results) == Len(results) > 0

\* The while loop is entered for chunk nextI (0-based)
Continues(rr, nextI) == nextI < Len(rr.batches) /\ RetryAgain(0, rr.retries)

\* The run at the head of the for loop with i = nextI, at time t: it sends the
\* first request for that chunk, or leaves the loop and returns (lines 259-266)
Proceed(rr, nextI, t) ==
    IF Continues(rr, nextI)
    THEN [rr EXCEPT !.pc = "fetching", !.i = nextI, !.attempts = 0,
                    !.success = FALSE, !.wake = t + LATENCY,
                    !.log = Append(rr.log, Ev("req", nextI, 1, <<>>, t))]
    ELSE [rr EXCEPT !.pc = "done", !.i = Len(rr.batches),
                    !.ret = rr.results, !.doneAt = t,
                    !.log = IF ShouldCache(rr.results)
                            THEN Append(rr.log, Ev("write", Len(rr.batches), 0, rr.results, t))
                            ELSE rr.log]

\* The cache slot after the run has gone through Proceed
CacheAfterAlways(slot, rr, nextI, t) ==
    IF ~Continues(rr, nextI) THEN CacheEntry(rr.results, t) ELSE slot
CacheAfter(slot, rr, nextI, t) ==
    IF ~Continues(rr, nextI) /\ ShouldCache(rr.results)
    THEN CacheEntry(rr.results, t)
    ELSE slot

StartCall(r, force) ==
    /\ run[r].pc \in {"idle", "done"}
    /\ NoneInSync
    /\ ncalls < MaxCalls
    /\ ncalls' = ncalls + 1
    /\ prev' = IF run[r].pc = "done"
               THEN [valid |-> TRUE, ret |-> run[r].ret,
                     forceRefresh |-> run[r].forceRefresh,
                     wrote |-> Wrote(run[r]), raised |-> run[r].raised]
               ELSE prev
    /\ LET c == getCachedData
           rr == [IdleRun EXCEPT !.tickers = args.tickers,
                                 !.batchSize = args.batchSize,
                                 !.retries = args.retries,
                                 !.forceRefresh = force,
                                 !.startAt = now,
                                 !.cacheAtStart = cache]
       IN  run' = [run EXCEPT ![r] =
                IF CacheHit(force, c)
                THEN [rr EXCEPT !.pc = "done", !.ret = c.data, !.undef = c.undef,
                                !.doneAt = now]
                ELSE IF ~isApiConfigured
                THEN [rr EXCEPT !.pc = "done", !.raised = TRUE, !.doneAt = now]
                ELSE [rr EXCEPT !.pc = "split", !.net = TRUE]]
    /\ UNCHANGED <<now, cache, args>>

\* One iteration of the loop of lines 221-223, or its exit
SplitStep(r) ==
    /\ run[r].pc = "split"
    /\ LET rr == run[r] IN
       IF rr.splitI < Len(rr.tickers)
       THEN /\ Len(rr.batches) < MaxBatches
            /\ run' = [run EXCEPT ![r].batches =
                           Append(rr.batches,
                                  Slice(rr.tickers, rr.splitI, rr.splitI + rr.batchSize)),
                                  ![r].splitI = rr.splitI + rr.batchSize]
            /\ UNCHANGED cache
       ELSE /\ run' = [run EXCEPT ![r] = Proceed(rr, 0, now)]
            /\ cache' = CacheAfter(cache, rr, 0, now)
    /\ UNCHANGED <<now, args, ncalls, prev>>

\* The request of fetchStockQuotes(batch, true) is answered with quotes
SourceAnswer(r) ==
    /\ run[r].pc = "fetching"
    /\ NoneInSync
    /\ LET rr == run[r]
           t == Max(now, rr.wake)
       IN  \E result \in SourceAnswers(rr.batches[rr.i + 1]) :
             LET mappedData == MapQuotes(result)
                 got == [rr EXCEPT !.results = PushAll(rr.results, mappedData),
                                   !.success = TRUE,
                                   !.log = rr.log \o
                                       << Ev("write", rr.i, 0, mappedData, t),
                                          Ev("ok", rr.i, rr.attempts + 1, mappedData, t) >>]
             IN  /\ now' = t
                 /\ IF PauseAfter(rr.i, Len(rr.batches))
                    THEN /\ run' = [run EXCEPT ![r] =
                                [got EXCEPT !.pc = "pause", !.wake = t + BATCH_DELAY,
                                            !.log = Append(got.log,
                                                Ev("pause", rr.i, BATCH_DELAY, <<>>, t))]]
                         /\ cache' = CacheEntry(mappedData, t)
                    ELSE /\ run' = [run EXCEPT ![r] = Proceed(got, rr.i + 1, t)]
                         /\ cache' = CacheAfter(CacheEntry(mappedData, t), got, rr.i + 1, t)
    /\ UNCHANGED <<args, ncalls, prev>>

\* The request fails: network error, HTTP error or invalid response format
SourceFails(r) ==
    /\ run[r].pc = "fetching"
    /\ NoneInSync
    /\ LET rr == run[r]
           t == Max(now, rr.wake)
           k == rr.attempts + 1
           failed == [rr EXCEPT !.attempts = k,
                                !.log = Append(rr.log, Ev("fail", rr.i, k, <<>>, t))]
       IN  /\ now' = t
           /\ IF RetryAgain(k, rr.retries)
              THEN /\ run' = [run EXCEPT ![r] =
                          [failed EXCEPT !.pc = "backoff", !.wake = t + BackoffDelay(k),
                                         !.log = Append(failed.log,
                                             Ev("backoff", rr.i, BackoffDelay(k), <<>>, t))]]
                   /\ UNCHANGED cache
              ELSE /\ run' = [run EXCEPT ![r] = Proceed(failed, rr.i + 1, t)]
                   /\ cache' = CacheAfter(cache, failed, rr.i + 1, t)
    /\ UNCHANGED <<args, ncalls, prev>>

\* The backoff timer of line 251 fires: the next attempt for the same chunk
BackoffElapses(r) ==
    /\ run[r].pc = "backoff"
    /\ NoneInSync
    /\ LET rr == run[r]
           t == Max(now, rr.wake)
       IN  /\ now' = t
           /\ run' = [run EXCEPT ![r] =
                  [rr EXCEPT !.pc = "fetching", !.wake = t + LATENCY,
                             !.log = Append(rr.log, Ev("req", rr.i, rr.attempts + 1, <<>>, t))]]
    /\ UNCHANGED <<cache, args, ncalls, prev>>

\* The inter-batch timer of line 244 fires: the next chunk
PauseElapses(r) ==
    /\ run[r].pc = "pause"
    /\ NoneInSync
    /\ LET rr == run[r]
           t == Max(now, rr.wake)
       IN  /\ now' = t
           /\ run' = [run EXCEPT ![r] = Proceed(rr, rr.i + 1, t)]
           /\ cache' = CacheAfter(cache, rr, rr.i + 1, t)
    /\ UNCHANGED <<args, ncalls, prev>>

----------------------------------------------------------------------------
(* main.js: the dashboard with the one-hour cache *)

NoDash == [kind |-> "absent", data |-> <<>>, timestamp |-> 0]

\* saveToCache: both keys are set
DashEntry(data, t) == [kind |-> "entry", data |-> JsonRoundTrip(data), timestamp |-> t]

NullCached == [null |-> TRUE, data |-> <<>>]

\* loadFromCache, line 194: the entry is expired
DashExpired(age) == age > CACHE_EXPIRY

\* loadFromCache at time t
loadFromCacheAt(slot, t) ==
    IF slot.kind = "absent" THEN NullCached
    ELSE LET age == t - slot.timestamp
         IN  IF DashExpired(age) THEN NullCached
             ELSE [null |-> FALSE, data |-> slot.data]

loadFromCache == loadFromCacheAt(dash, now)

getCacheTimestamp == IF dash.kind = "absent" THEN 0 ELSE dash.timestamp

\* showLoading, showMainContent, showError
Loading == [loading |-> TRUE, main |-> FALSE, error |-> FALSE]
MainContent == [loading |-> FALSE, main |-> TRUE, error |-> FALSE]
ErrorPanel == [loading |-> FALSE, main |-> FALSE, error |-> TRUE]
\* hideError
HideError(p) == [p EXCEPT !.error = FALSE]

NoActivation == [active |-> FALSE, silent |-> FALSE]

Free(r) == run[r].pc \in {"idle", "done"} /\ ~ffd[r].active
FreeRun == CHOOSE r \in Runs : Free(r) /\ \A q \in Runs : Free(q) => r <= q

\* fetchFreshData after its await (lines 132-164): run r has returned
AfterFetch(r, silent, p, sp, s0) ==
    LET data == run'[r].ret
        ok == ~run'[r].raised /\ Len(data) # 0
    IN  /\ stocksData' = IF ok THEN data ELSE s0
        /\ dash' = IF ok THEN DashEntry(data, now') ELSE dash
        /\ panel' = IF silent THEN p ELSE IF ok THEN MainContent ELSE ErrorPanel
        /\ spinner' = IF silent THEN FALSE ELSE sp
        /\ isUpdating' = FALSE
        /\ ffd' = [ffd EXCEPT ![r] = NoActivation]

\* fetchFreshData(silent) up to its await (lines 119-130), called with the
\* panels as p0 and stocksData as s0; the call of
\* fetchStocksBatched(portfolio.tickers) is run r
FetchFreshData(r, silent, p0, s0) ==
    /\ StartCall(r, FALSE)
    /\ LET p == HideError(IF silent THEN p0 ELSE Loading)
           sp == IF silent THEN TRUE ELSE spinner
       IN  IF run'[r].pc = "done"
           THEN AfterFetch(r, silent, p, sp, s0)
           ELSE /\ panel' = p
                /\ spinner' = sp
                /\ isUpdating' = TRUE
                /\ ffd' = [ffd EXCEPT ![r] = [active |-> TRUE, silent |-> silent]]
                /\ stocksData' = s0
                /\ UNCHANGED dash

\* loadPortfolioData (lines 91-114), called with the panels as p0
LoadPortfolioData(p0) ==
    LET cachedData == loadFromCache IN
    IF ~cachedData.null
    THEN IF now - getCacheTimestamp > BACKGROUND_AGE
         THEN /\ \E r \in Runs : Free(r)
              /\ FetchFreshData(FreeRun, TRUE, MainContent, cachedData.data)
         ELSE /\ stocksData' = cachedData.data
              /\ panel' = MainContent
              /\ UNCHANGED <<apiVars, isUpdating, spinner, dash, ffd>>
    ELSE /\ \E r \in Runs : Free(r)
         /\ FetchFreshData(FreeRun, FALSE, Loading, stocksData)

\* The handler of DOMContentLoaded (lines 24-28)
DOMContentLoaded ==
    /\ page = "loading"
    /\ page' = "ready"
    /\ LoadPortfolioData(panel)

\* The user reloads the page: the script's state is lost, localStorage is kept
Reload ==
    /\ page = "ready"
    /\ \A q \in Runs : run[q].pc # "split"
    /\ page' = "loading"
    /\ run' = [r \in Runs |-> IdleRun]
    /\ ffd' = [r \in Runs |-> NoActivation]
    /\ isUpdating' = FALSE
    /\ panel' = Loading
    /\ spinner' = FALSE
    /\ stocksData' = <<>>
    /\ UNCHANGED <<now, cache, args, ncalls, prev, dash>>

\* The click handler of #refresh-btn (lines 45-49), when it does something
RefreshClick ==
    /\ page = "ready"
    /\ ~isUpdating
    /\ \E r \in Runs : Free(r)
    /\ FetchFreshData(FreeRun, FALSE, panel, stocksData)
    /\ UNCHANGED page

\* The click handler of #retry-btn (lines 52-55); the button is part of #error
RetryClickWhileHidden ==
    /\ page = "ready"
    /\ LoadPortfolioData(HideError(panel))
    /\ UNCHANGED page
RetryClick ==
    /\ page = "ready"
    /\ panel.error
    /\ LoadPortfolioData(HideError(panel))
    /\ UNCHANGED page

\* The setInterval callback of lines 72-76, when it does something
AutoRefresh ==
    /\ page = "ready"
    /\ REFRESH_INTERVAL > 0
    /\ ~isUpdating
    /\ \E r \in Runs : Free(r)
    /\ FetchFreshData(FreeRun, TRUE, panel, stocksData)
    /\ UNCHANGED page

\* A step of run r under the dashboard: when the run returns, the
\* fetchFreshData that awaits it goes on in the same task
Awaited(r) ==
    /\ ffd[r].active
    /\ IF run'[r].pc = "done"
       THEN AfterFetch(r, ffd[r].silent, panel, spinner, stocksData)
       ELSE UNCHANGED <<isUpdating, panel, spinner, stocksData, dash, ffd>>
    /\ UNCHANGED page

----------------------------------------------------------------------------
(* part_001: the dashboard that relies on the four-hour cache of            *)
(* fetchStocksBatched and on a countdown that reloads the page              *)

TIMER_PERIOD == 1000

\* updateCacheTimer at time t calls location.reload(): line 797
ReloadsAt(slot, t) ==
    LET timeData == getTimeUntilNextUpdateAt(slot, t)
    IN  /\ ~timeData.null
        /\ ~timeData.nan
        /\ timeData.hours = 0 /\ timeData.minutes = 0 /\ timeData.seconds = 0

\* loadPortfolioData after its await (lines 734-754): run r has returned.
\* isUpdating is assigned in the finally block only.
AfterLoad(r, pg) ==
    LET data == run'[r].ret
        ok == ~run'[r].raised /\ Len(data) # 0
    IN  /\ stocksData' = IF ok THEN data ELSE stocksData
        /\ panel' = IF ok THEN MainContent ELSE ErrorPanel
        /\ page' = IF ok /\ ReloadsAt(cache', now') THEN "reloading" ELSE pg
        /\ isUpdating' = FALSE
        /\ ffd' = [ffd EXCEPT ![r] = NoActivation]

\* loadPortfolioData (lines 727-755); pg is the state of the page after it
LoadPortfolioData4h(pg) ==
    /\ \E r \in Runs : Free(r)
    /\ StartCall(FreeRun, FALSE)
    /\ IF run'[FreeRun].pc = "done"
       THEN AfterLoad(FreeRun, pg)
       ELSE /\ panel' = Loading
            /\ ffd' = [ffd EXCEPT ![FreeRun] = [active |-> TRUE, silent |-> FALSE]]
            /\ page' = pg
            /\ UNCHANGED <<isUpdating, stocksData>>

\* The handler of DOMContentLoaded (lines 657-662): loadPortfolioData, then
\* startCacheTimer
DOMContentLoaded4h ==
    /\ page = "loading"
    /\ LoadPortfolioData4h("ready")
    /\ timer' = now + TIMER_PERIOD
    /\ UNCHANGED <<spinner, dash, pureVars>>

\* The click handler of #refresh-btn (lines 679-683)
RefreshClick4h ==
    /\ page = "ready"
    /\ ~isUpdating
    /\ LoadPortfolioData4h(page)
    /\ UNCHANGED <<timer, spinner, dash, pureVars>>

\* The click handler of #retry-btn (lines 697-700); the button is part of #error
RetryClick4h ==
    /\ page = "ready"
    /\ panel.error
    /\ LoadPortfolioData4h(page)
    /\ UNCHANGED <<timer, spinner, dash, pureVars>>

\* The click handler of #clear-cache-btn (lines 686-691), confirmed:
\* clearCache and location.reload().  showCacheControls displays the button
\* after a load succeeded.
ClearCacheClick ==
    /\ page = "ready"
    /\ panel.main
    /\ cache' = NoEntry
    /\ page' = "reloading"
    /\ UNCHANGED <<now, args, run, ncalls, prev, isUpdating, panel, stocksData, ffd, timer,
                   spinner, dash, pureVars>>

\* The navigation that location.reload() asked for: the script's state is
\* lost, localStorage is kept, and the new document takes PageLoadTime
Unload ==
    /\ page = "reloading"
    /\ NoneInSync
    /\ page' = "loading"
    /\ now' = now + PageLoadTime
    /\ run' = [r \in Runs |-> IdleRun]
    /\ ffd' = [r \in Runs |-> NoActivation]
    /\ isUpdating' = FALSE
    /\ panel' = Loading
    /\ stocksData' = <<>>
    /\ timer' = 0
    /\ UNCHANGED <<cache, args, ncalls, prev, spinner, dash, pureVars>>

Quiet == \A r \in Runs : run[r].pc \in {"idle", "done"}

\* The time of the callback that TimerFires stands for.  While no run is in
\* progress and at least two periods of the cache window are left, the
\* callbacks only redraw the countdown: they are taken together with the last
\* one that comes a period or more before the window ends.
FireTime ==
    LET left == cache.timestamp + CACHE_DURATION - timer
    IN  IF Quiet /\ cache.kind = "entry" /\ left >= 2 * TIMER_PERIOD
        THEN timer + TIMER_PERIOD * ((left \div TIMER_PERIOD) - 1)
        ELSE timer

\* The setInterval callback of startCacheTimer (lines 763-765):
\* updateCacheTimer.  Once the countdown is hidden and no run is in progress,
\* later callbacks find the same and the clock is left where it is.
TimerFires ==
    /\ page = "ready"
    /\ NoneInSync
    /\ \A r \in Runs : run[r].pc \in {"fetching", "backoff", "pause"} => run[r].wake >= timer
    /\ IF Quiet /\ getTimeUntilNextUpdateAt(cache, now).null
       THEN UNCHANGED <<now, timer, page>>
       ELSE /\ now' = FireTime
            /\ timer' = FireTime + TIMER_PERIOD
            /\ page' = IF ReloadsAt(cache, FireTime) THEN "reloading" ELSE page
    /\ UNCHANGED <<cache, args, run, ncalls, prev, isUpdating, panel, stocksData, ffd,
                   spinner, dash, pureVars>>

\* A step of run r under this dashboard, in the order of time with the
\* callbacks of the timer: when the run returns, the loadPortfolioData that
\* awaits it goes on in the same task
Awaited4h(r) ==
    /\ page = "ready"
    /\ Max(now, run[r].wake) <= timer
    /\ ffd[r].active
    /\ IF run'[r].pc = "done"
       THEN AfterLoad(r, page)
       ELSE UNCHANGED <<isUpdating, panel, stocksData, ffd, page>>
    /\ UNCHANGED <<timer, spinner, dash, pureVars>>

----------------------------------------------------------------------------
(* Time *)

\* The instants at which the freshness of a slot changes
Instants ==
    (IF cache.kind \in {"entry", "nodata"}
     THEN { cache.timestamp + CACHE_DURATION - 1,
            cache.timestamp + CACHE_DURATION,
            cache.timestamp + CACHE_DURATION + 1 }
     ELSE {})
    \cup
    (IF dash.kind = "entry"
     THEN { dash.timestamp + BACKGROUND_AGE,
            dash.timestamp + BACKGROUND_AGE + 1,
            dash.timestamp + CACHE_EXPIRY - 1,
            dash.timestamp + CACHE_EXPIRY,
            dash.timestamp + CACHE_EXPIRY + 1 }
     ELSE {})

\* Time passes while no call is in progress
Tick ==
    /\ \A r \in Runs : run[r].pc \in {"idle", "done"}
    /\ \E t \in Instants : t > now /\ now' = t
    /\ UNCHANGED <<cache, args, run, ncalls, prev>>

----------------------------------------------------------------------------
(* Spec: one call of fetchStocksBatched, made with any of the arguments and  *)
(* with the slot as an earlier session may have left it                     *)

ArgSets ==
    [tickers : { SubSeq(PortfolioTickers, 1, n) : n \in 0..MaxTickers },
     batchSize : -1..MaxBatchSize,
     retries : 0..MaxRetries]

\* What setCachedData of an earlier session left in the slot for these
\* tickers, written one second before the page started
InitialSlots(a) ==
    {NoEntry} \cup
    { CacheEntry(MapQuotes(result), StartTime - 1000) : result \in SourceAnswers(a.tickers) }

InitRuns ==
    /\ now = StartTime
    /\ run = [r \in Runs |-> IdleRun]
    /\ ncalls = 0
    /\ prev = NoPrev

\* No pure function has been called
NoCalc == [fn |-> "none"]
NoPure == calc = NoCalc /\ dca = NoCalc /\ worker = NoCalc

InitMain ==
    /\ page = "loading"
    /\ isUpdating = FALSE
    /\ panel = Loading
    /\ spinner = FALSE
    /\ stocksData = <<>>
    /\ dash = NoDash
    /\ ffd = [r \in Runs |-> NoActivation]
    /\ timer = 0

Init ==
    /\ InitRuns
    /\ InitMain
    /\ NoPure
    /\ args \in ArgSets
    /\ cache \in InitialSlots(args)

Next ==
    \/ \E force \in BOOLEAN :
         /\ run[Caller].pc = "idle"
         /\ StartCall(Caller, force)
         /\ UNCHANGED <<mainVars, otherVars>>
    \/ SplitStep(Caller) /\ UNCHANGED <<mainVars, otherVars>>
    \/ SourceAnswer(Caller) /\ UNCHANGED <<mainVars, otherVars>>
    \/ SourceFails(Caller) /\ UNCHANGED <<mainVars, otherVars>>
    \/ BackoffElapses(Caller) /\ UNCHANGED <<mainVars, otherVars>>
    \/ PauseElapses(Caller) /\ UNCHANGED <<mainVars, otherVars>>
    \/ Tick /\ UNCHANGED <<mainVars, otherVars>>

Spec == Init /\ [][Next]_vars

----------------------------------------------------------------------------
(* SpecSeq: up to MaxCalls calls of fetchStocksBatched, one after the other, *)
(* starting with an empty localStorage                                      *)

SeqInit ==
    /\ InitRuns
    /\ InitMain
    /\ NoPure
    /\ args \in ArgSets
    /\ cache = NoEntry

SeqNext ==
    \/ \E force \in BOOLEAN :
         StartCall(Caller, force) /\ UNCHANGED <<mainVars, otherVars>>
    \/ SplitStep(Caller) /\ UNCHANGED <<mainVars, otherVars>>
    \/ SourceAnswer(Caller) /\ UNCHANGED <<mainVars, otherVars>>
    \/ SourceFails(Caller) /\ UNCHANGED <<mainVars, otherVars>>
    \/ BackoffElapses(Caller) /\ UNCHANGED <<mainVars, otherVars>>
    \/ PauseElapses(Caller) /\ UNCHANGED <<mainVars, otherVars>>
    \/ Tick /\ UNCHANGED <<mainVars, otherVars>>

SpecSeq == SeqInit /\ [][SeqNext]_vars

----------------------------------------------------------------------------
(* SpecCorrupt: one call of fetchStocksBatched, and reads of the cache, with *)
(* a text in the slot that setCachedData did not write                       *)

CorruptSlots(a) ==
    {Unparseable, NoDataProperty(StartTime - 1000)} \cup
    { NoTimestampProperty(MapQuotes(result)) : result \in SourceAnswers(a.tickers) }

CorruptInit ==
    /\ InitRuns
    /\ InitMain
    /\ NoPure
    /\ args \in ArgSets
    /\ cache \in CorruptSlots(args)

SpecCorrupt == CorruptInit /\ [][Next]_vars

----------------------------------------------------------------------------
(* SpecMain: the dashboard of main.js, which calls                          *)
(* fetchStocksBatched(portfolio.tickers) with the default arguments.  The   *)
(* portfolio has no more tickers than DEFAULT_BATCH_SIZE, so there is one   *)
(* chunk and the inter-batch timer is never set.                            *)

PortfolioArgs ==
    [tickers |-> SubSeq(PortfolioTickers, 1, MaxTickers),
     batchSize |-> DEFAULT_BATCH_SIZE,
     retries |-> DEFAULT_RETRIES]

MainInit ==
    /\ InitRuns
    /\ InitMain
    /\ NoPure
    /\ args = PortfolioArgs
    /\ cache = NoEntry

MainNext ==
    \/ DOMContentLoaded /\ UNCHANGED otherVars
    \/ Reload /\ UNCHANGED otherVars
    \/ RefreshClick /\ UNCHANGED otherVars
    \/ RetryClick /\ UNCHANGED otherVars
    \/ AutoRefresh /\ UNCHANGED otherVars
    \/ \E r \in Runs : SplitStep(r) /\ Awaited(r) /\ UNCHANGED otherVars
    \/ \E r \in Runs : SourceAnswer(r) /\ Awaited(r) /\ UNCHANGED otherVars
    \/ \E r \in Runs : SourceFails(r) /\ Awaited(r) /\ UNCHANGED otherVars
    \/ \E r \in Runs : BackoffElapses(r) /\ Awaited(r) /\ UNCHANGED otherVars
    \/ Tick /\ UNCHANGED <<mainVars, otherVars>>

SpecMain == MainInit /\ [][MainNext]_vars

----------------------------------------------------------------------------
(* SpecTimer: the dashboard of part_001, started with the slot as an        *)
(* earlier session may have left it                                         *)

TimerInit ==
    /\ InitRuns
    /\ InitMain
    /\ NoPure
    /\ args = PortfolioArgs
    /\ cache \in InitialSlots(PortfolioArgs)

TimerNext ==
    \/ DOMContentLoaded4h
    \/ RefreshClick4h
    \/ RetryClick4h
    \/ ClearCacheClick
    \/ Unload
    \/ TimerFires
    \/ \E r \in Runs : SplitStep(r) /\ Awaited4h(r)
    \/ \E r \in Runs : SourceAnswer(r) /\ Awaited4h(r)
    \/ \E r \in Runs : SourceFails(r) /\ Awaited4h(r)
    \/ \E r \in Runs : BackoffElapses(r) /\ Awaited4h(r)

SpecTimer == TimerInit /\ [][TimerNext]_vars

\* The browser runs every task that is ready: timer callbacks, navigations,
\* the load event, and the completion of every request
TimerFairness ==
    /\ WF_vars(DOMContentLoaded4h)
    /\ WF_vars(Unload)
    /\ WF_vars(TimerFires)
    /\ \A r \in Runs :
         /\ WF_vars(SplitStep(r) /\ Awaited4h(r))
         /\ WF_vars((SourceAnswer(r) \/ SourceFails(r)) /\ Awaited4h(r))
         /\ WF_vars(BackoffElapses(r) /\ Awaited4h(r))

FairSpecTimer == SpecTimer /\ TimerFairness

----------------------------------------------------------------------------
(* The numbers of calculateDCAScenario.  A JavaScript number is modelled by *)
(* the exact fraction n/d, or by Infinity, -Infinity or NaN, with the       *)
(* rules of IEEE 754 for these three; rounding and the sign of zero are not *)
(* modelled.                                                                *)

Abs(i) == IF i < 0 THEN -i ELSE i

RECURSIVE GCD(_, _)
GCD(a, b) == IF b = 0 THEN a ELSE GCD(b, a % b)

Fin(n, d) ==
    LET g == GCD(Abs(n), Abs(d))
        sgn == IF d < 0 THEN -1 ELSE 1
    IN  [k |-> "fin", n |-> (sgn * n) \div g, d |-> (sgn * d) \div g]

Num(i) == Fin(i, 1)
NaN == [k |-> "nan", n |-> 0, d |-> 1]
Infinity == [k |-> "inf", n |-> 1, d |-> 1]
NegInfinity == [k |-> "inf", n |-> -1, d |-> 1]

IsNaN(a) == a.k = "nan"
IsFinite(a) == a.k = "fin"
\* -1, 0 or 1; of a number that is not NaN
Sign(a) == IF a.n > 0 THEN 1 ELSE IF a.n < 0 THEN -1 ELSE 0
Signed(sgn) == IF sgn > 0 THEN Infinity ELSE NegInfinity

Neg(a) == [a EXCEPT !.n = -a.n]

\* a + b
Add(a, b) ==
    IF IsNaN(a) \/ IsNaN(b) THEN NaN
    ELSE IF IsFinite(a) /\ IsFinite(b)
    THEN LET g == GCD(a.d, b.d)
         IN  Fin(a.n * (b.d \div g) + b.n * (a.d \div g), (a.d \div g) * b.d)
    ELSE IF IsFinite(a) THEN b
    ELSE IF IsFinite(b) THEN a
    ELSE IF a = b THEN a ELSE NaN

Sub(a, b) == Add(a, Neg(b))

\* a * b
Mul(a, b) ==
    IF IsNaN(a) \/ IsNaN(b) THEN NaN
    ELSE IF IsFinite(a) /\ IsFinite(b) THEN Fin(a.n * b.n, a.d * b.d)
    ELSE IF Sign(a) = 0 \/ Sign(b) = 0 THEN NaN
    ELSE Signed(Sign(a) * Sign(b))

\* a / b
Div(a, b) ==
    IF IsNaN(a) \/ IsNaN(b) THEN NaN
    ELSE IF IsFinite(a) /\ IsFinite(b)
    THEN IF b.n # 0 THEN Fin(a.n * b.d, a.d * b.n)
         ELSE IF a.n = 0 THEN NaN ELSE Signed(Sign(a))
    ELSE IF IsFinite(a) THEN Num(0)
    ELSE IF IsFinite(b) THEN Signed(Sign(a) * (IF Sign(b) < 0 THEN -1 ELSE 1))
    ELSE NaN

\* a >= b and a > b; false when either is NaN
Geq(a, b) ==
    IF IsNaN(a) \/ IsNaN(b) THEN FALSE
    ELSE IF IsFinite(a) /\ IsFinite(b) THEN a.n * b.d >= b.n * a.d
    ELSE IF IsFinite(a) THEN Sign(b) < 0
    ELSE IF IsFinite(b) THEN Sign(a) > 0
    ELSE Sign(a) >= Sign(b)

Gt(a, b) == Geq(a, b) /\ a # b

RECURSIVE IntPow(_, _)
IntPow(base, e) == IF e = 0 THEN Num(1) ELSE Mul(base, IntPow(base, e - 1))

\* The ed-th root of base when it is 0, 1 or 2, and NaN otherwise
Root(base, ed) ==
    IF base = Num(0) \/ base = Num(1) THEN base
    ELSE IF base = IntPow(Num(2), ed) THEN Num(2)
    ELSE NaN

\* Math.pow(base, en/ed) for a finite base and ed > 0: exact for a whole
\* exponent, and for a base that is the ed-th power of 0, 1 or 2 (4096 to
\* the power 1/12 is 2); NaN for a negative base with a
\* fractional exponent.  The parameters of the model keep to these cases
\* (another base with a fractional exponent gives an irrational number).
RECURSIVE Pow(_, _, _)
Pow(base, en, ed) ==
    IF en < 0 THEN Div(Num(1), Pow(base, -en, ed))
    ELSE IF en % ed = 0 THEN IntPow(base, en \div ed)
    ELSE IF IsNaN(Root(base, ed)) THEN NaN
    ELSE IntPow(Root(base, ed), en)

\* x.toFixed(2): the number rounded to hundredths (half away from zero), as
\* the text of a decimal number; "NaN" and "Infinity" for these.  The text
\* is kept as the number it denotes.
ToFixed2(x) ==
    IF ~IsFinite(x) THEN x
    ELSE LET scaled == 100 * Abs(x.n)
             whole == scaled \div x.d
             up == IF 2 * (scaled % x.d) >= x.d THEN 1 ELSE 0
         IN  Fin(Sign(x) * (whole + up), 100)

\* a === b: NaN is equal to nothing
Eq(a, b) == ~IsNaN(a) /\ ~IsNaN(b) /\ a = b

----------------------------------------------------------------------------
(* calculateDCAScenario (part_001), one simulated month at a time           *)

MONTHS_PER_YEAR == 12
DEFAULT_RECOVERY == 12

\* Lines 272-273: the first and the last month of a crash
CrashStartMonthOfNextYear(c) == c.year * MONTHS_PER_YEAR + 1
CrashStartMonth(c) == (c.year - 1) * MONTHS_PER_YEAR + 1
RecoveryMonths(c) == IF c.recoveryMonths = 0 THEN DEFAULT_RECOVERY ELSE c.recoveryMonths

CrashActive(c, monthIndex) ==
    /\ monthIndex >= CrashStartMonth(c)
    /\ monthIndex < CrashStartMonth(c) + RecoveryMonths(c)

\* Lines 271-275: marketCrashes.find, as the index of the crash found, 0: none
FindCrash(marketCrashes, monthIndex) ==
    LET found == { k \in 1..Len(marketCrashes) : CrashActive(marketCrashes[k], monthIndex) }
    IN  IF found = {} THEN 0 ELSE CHOOSE k \in found : \A j \in found : k <= j

\* Line 268: the price of the month before any crash
UndisturbedPrice(params, monthIndex) ==
    Mul(params.currentPrice,
        Pow(Add(Num(1), params.cagr), monthIndex - 1, MONTHS_PER_YEAR))

\* Lines 319 and 338: the price at the end of a year
YearEndPrice(params, year) ==
    Mul(params.currentPrice, Pow(Add(Num(1), params.cagr), year, 1))

\* Lines 268-290: the price of the month
CurrentMonthPrice(params, monthIndex) ==
    LET undisturbed == UndisturbedPrice(params, monthIndex)
        k == FindCrash(params.marketCrashes, monthIndex)
    IN  IF k = 0 THEN undisturbed
        ELSE LET crash == params.marketCrashes[k]
                 monthsSinceCrash == monthIndex - CrashStartMonth(crash)
                 crashPrice == Mul(undisturbed, Sub(Num(1), crash.drop))
             IN  IF monthsSinceCrash = 0 THEN crashPrice
                 ELSE IF monthsSinceCrash < RecoveryMonths(crash)
                 THEN Add(crashPrice,
                          Mul(Sub(undisturbed, crashPrice),
                              Fin(monthsSinceCrash, RecoveryMonths(crash))))
                 ELSE undisturbed

\* Line 310: the buffer is reinvested
ReinvestDueStrict(cashBuffer, reinvestThreshold) == Gt(cashBuffer, reinvestThreshold)
ReinvestDue(cashBuffer, reinvestThreshold) == Geq(cashBuffer, reinvestThreshold)

\* Line 314: the buffer after it was reinvested
BufferKept(cashBuffer) == cashBuffer
BufferAfterReinvest(cashBuffer) == Num(0)

\* The locals of a call with these parameters, before line 246.  Beside the
\* locals of the code the record keeps, of the last simulated month: its
\* price, the shares before it (prevShares) and after the purchase of line
\* 295 (afterDCA), the buffer and the reinvested total before line 310, and
\* whether a division by a zero or by a negative price was made so far, its
\* dividend and whether every dividend so far was >= 0.  Of results it
\* keeps finalPrice and, of each entry of yearlyData, year and price.
DcaCall(params) ==
    [fn |-> "calculateDCAScenario", params |-> params, pc |-> "start",
     rejected |-> FALSE, year |-> 0, month |-> 0, months |-> 0,
     shares |-> Num(0), cashBuffer |-> Num(0), totalInvested |-> Num(0),
     totalDividendsReceived |-> Num(0), totalDividendsReinvested |-> Num(0),
     price |-> Num(0), prevShares |-> Num(0), afterDCA |-> Num(0),
     bufferBefore |-> Num(0), reinvestedBefore |-> Num(0),
     divByZero |-> FALSE, divByNegative |-> FALSE,
     monthlyDividend |-> Num(0), dividendsNonNegative |-> TRUE,
     yearlyData |-> <<>>, finalPrice |-> Num(0)]

\* The for loop of line 259 goes on with this year
YearRuns(params, year) == year <= params.years

\* Lines 246-256 and the entry of the loops: no parameter is validated
DcaStart ==
    /\ dca.fn = "calculateDCAScenario"
    /\ dca.pc = "start"
    /\ LET params == dca.params
           invests == Gt(params.initialInvestment, Num(0))
           shares == IF invests THEN Div(params.initialInvestment, params.currentPrice)
                     ELSE Num(0)
       IN  dca' = [dca EXCEPT
                !.pc = IF YearRuns(params, 1) THEN "month" ELSE "done",
                !.year = 1, !.month = 1,
                !.shares = shares, !.prevShares = shares, !.afterDCA = shares,
                !.totalInvested = IF invests THEN params.initialInvestment ELSE Num(0),
                !.divByZero = invests /\ params.currentPrice = Num(0),
                !.divByNegative = invests /\ Gt(Num(0), params.currentPrice),
                !.finalPrice = IF YearRuns(params, 1) THEN dca.finalPrice
                               ELSE ToFixed2(YearEndPrice(params, params.years))]
    /\ UNCHANGED <<apiVars, mainVars, timer, calc, worker>>

\* One pass of the loop of line 264 (lines 265-315), with the end of the year
\* (lines 318-334) and of the run (lines 338-351) when it is the last month
\* of the year
DcaMonth ==
    /\ dca.fn = "calculateDCAScenario"
    /\ dca.pc = "month"
    /\ LET params == dca.params
           monthIndex == (dca.year - 1) * MONTHS_PER_YEAR + dca.month
           currentMonthPrice == CurrentMonthPrice(params, monthIndex)
           buys == Gt(params.monthlyDCA, Num(0))
           shares1 == IF buys THEN Add(dca.shares, Div(params.monthlyDCA, currentMonthPrice))
                      ELSE dca.shares
           annualDividendPerShare ==
               Mul(Mul(currentMonthPrice, params.currentDividendYield),
                   Pow(Add(Num(1), params.dividendGrowth), dca.year - 1, 1))
           monthlyDividend == Div(Mul(shares1, annualDividendPerShare), Num(MONTHS_PER_YEAR))
           cashBuffer1 == Add(dca.cashBuffer, monthlyDividend)
           reinvests == ReinvestDue(cashBuffer1, params.reinvestThreshold)
           divides == buys \/ reinvests
           lastMonth == dca.month = MONTHS_PER_YEAR
           nextYear == IF lastMonth THEN dca.year + 1 ELSE dca.year
           returns == lastMonth /\ ~YearRuns(params, nextYear)
           snapshot == [year |-> dca.year,
                        price |-> ToFixed2(YearEndPrice(params, dca.year))]
       IN  dca' = [dca EXCEPT
                !.pc = IF returns THEN "done" ELSE "month",
                !.monthlyDividend = monthlyDividend,
                !.dividendsNonNegative =
                    dca.dividendsNonNegative /\ Geq(monthlyDividend, Num(0)),
                !.yearlyData = IF lastMonth THEN Append(dca.yearlyData, snapshot)
                               ELSE dca.yearlyData,
                !.finalPrice = IF returns THEN ToFixed2(YearEndPrice(params, params.years))
                               ELSE dca.finalPrice,
                !.year = nextYear,
                !.month = IF lastMonth THEN 1 ELSE dca.month + 1,
                !.months = dca.months + 1,
                !.price = currentMonthPrice,
                !.prevShares = dca.shares,
                !.afterDCA = shares1,
                !.bufferBefore = cashBuffer1,
                !.reinvestedBefore = dca.totalDividendsReinvested,
                !.shares = IF reinvests THEN Add(shares1, Div(cashBuffer1, currentMonthPrice))
                           ELSE shares1,
                !.totalInvested = IF buys THEN Add(dca.totalInvested, params.monthlyDCA)
                                  ELSE dca.totalInvested,
                !.totalDividendsReceived = Add(dca.totalDividendsReceived, monthlyDividend),
                !.totalDividendsReinvested =
                    IF reinvests THEN Add(dca.totalDividendsReinvested, cashBuffer1)
                    ELSE dca.totalDividendsReinvested,
                !.cashBuffer = IF reinvests THEN BufferAfterReinvest(cashBuffer1)
                               ELSE cashBuffer1,
                !.divByZero = dca.divByZero \/ (divides /\ currentMonthPrice = Num(0)),
                !.divByNegative = dca.divByNegative
                                    \/ (divides /\ Gt(Num(0), currentMonthPrice))]
    /\ UNCHANGED <<apiVars, mainVars, timer, calc, worker>>

\* The parameters of the model
Crashes ==
    { <<>>,
      << [year |-> 1, drop |-> Fin(1, 2), recoveryMonths |-> 2] >>,
      << [year |-> 1, drop |-> Num(1), recoveryMonths |-> 2] >>,
      << [year |-> 2, drop |-> Fin(3, 2), recoveryMonths |-> 0] >>,
      << [year |-> 2, drop |-> Fin(1, 2), recoveryMonths |-> 3] >>,
      << [year |-> 1, drop |-> Fin(1, 2), recoveryMonths |-> -1] >> }

\* Runs whose price grows: 1 + cagr = 4096, the price doubles every month.
\* They buy nothing after the start and pay no dividend, which keeps every
\* number of the run small.
GrowthParams ==
    [initialInvestment : {Num(0), Num(1)},
     monthlyDCA : {Num(0)},
     years : {0, 1, 2},
     currentPrice : {Num(1)},
     currentDividendYield : {Num(0)},
     cagr : {Num(4095)},
     dividendGrowth : {Num(0)},
     reinvestThreshold : {Num(0), Num(2)},
     marketCrashes : Crashes]

FlatParams ==
    [initialInvestment : {Num(0), Num(1)},
     monthlyDCA : {Num(0), Num(1)},
     years : {-1, 0, 1, 2},
     currentPrice : {Num(-1), Num(0), Num(1)},
     currentDividendYield : {Num(0), Num(12)},
     cagr : {Num(0), Num(-1)},
     dividendGrowth : {Num(0), Num(-2)},
     reinvestThreshold : {Num(-1), Num(0), Num(2), Num(1000)},
     marketCrashes : Crashes]

DcaParams == FlatParams \cup GrowthParams

DcaInit ==
    /\ InitRuns
    /\ InitMain
    /\ args = PortfolioArgs
    /\ cache = NoEntry
    /\ calc = NoCalc
    /\ worker = NoCalc
    /\ dca \in { DcaCall(params) : params \in DcaParams }

DcaNext == DcaStart \/ DcaMonth

SpecDCA == DcaInit /\ [][DcaNext]_vars

----------------------------------------------------------------------------
(* cloudflare-worker/worker.js: the handler fetch, one request at a time.   *)
(* The text of a URL is a sequence of pieces; the names of the two hosts of *)
(* the quote source occur in a text only as whole pieces.                   *)

QUERY1 == "query1.finance.yahoo.com"
QUERY2 == "query2.finance.yahoo.com"
SCHEME == "https://"
CRUMB_URL == <<SCHEME, QUERY1, "/v1/test/getcrumb">>

\* text.includes(piece)
Includes(text, piece) == \E i \in 1..Len(text) : text[i] = piece

\* Lines 23-24: the test the worker makes of the target
Allowed(targetUrl) == Includes(targetUrl, QUERY1) \/ Includes(targetUrl, QUERY2)

\* The requests of the model: the method, and the parameter url, which is
\* missing, empty, or the text of a URL
TargetHosts ==
    { <<QUERY1>>, <<QUERY2>>, <<"evil.example">>, <<QUERY1, ".evil.example">>,
      <<"metadata.internal">> }
TargetTails ==
    { <<>>, <<"/v7/finance/quote?symbols=AAPL">>, <<"/?next=", QUERY1>>,
      <<"/?next=", QUERY2>> }
TargetUrls == { <<SCHEME>> \o h \o t : h \in TargetHosts, t \in TargetTails }
NoUrl == [present |-> FALSE, text |-> <<>>]
UrlParams == {NoUrl} \cup { [present |-> TRUE, text |-> t] : t \in TargetUrls \cup {<<>>} }
WorkerRequests == [method : {"GET", "OPTIONS"}, url : UrlParams]

\* The statuses the quote source answers with
SourceStatuses == {200, 404, 429}

WorkerCall(request) ==
    [fn |-> "fetch", request |-> request, pc |-> "received",
     fetched |-> <<>>, status |-> 0]

Respond(status) == worker' = [worker EXCEPT !.pc = "responded", !.status = status]

\* Lines 8-45: the preflight, the missing parameter, the test of the target,
\* and the request for the crumb
WorkerReceives ==
    /\ worker.fn = "fetch"
    /\ worker.pc = "received"
    /\ LET targetUrl == worker.request.url
       IN  IF worker.request.method = "OPTIONS" THEN Respond(204)
           ELSE IF ~targetUrl.present \/ targetUrl.text = <<>> THEN Respond(400)
           ELSE IF ~Allowed(targetUrl.text) THEN Respond(403)
           ELSE worker' = [worker EXCEPT !.pc = "crumb",
                                         !.fetched = Append(@, CRUMB_URL)]
    /\ UNCHANGED <<apiVars, mainVars, timer, calc, dca>>

\* Lines 31-68: the crumb arrives, whatever its status, and the target is
\* requested
CrumbAnswers ==
    /\ worker.fn = "fetch"
    /\ worker.pc = "crumb"
    /\ worker' = [worker EXCEPT !.pc = "target",
                                !.fetched = Append(@, worker.request.url.text)]
    /\ UNCHANGED <<apiVars, mainVars, timer, calc, dca>>

\* Lines 70-87: the target answers; an answer that is not ok is passed on
\* with its status, an ok answer that is not JSON makes response.json()
\* throw (line 84)
TargetAnswers ==
    /\ worker.fn = "fetch"
    /\ worker.pc = "target"
    /\ \E status \in SourceStatuses, json \in BOOLEAN :
         IF status # 200 THEN Respond(status)
         ELSE IF json THEN Respond(200)
         ELSE Respond(500)
    /\ UNCHANGED <<apiVars, mainVars, timer, calc, dca>>

\* Lines 89-96: a fetch that throws
FetchThrows ==
    /\ worker.fn = "fetch"
    /\ worker.pc \in {"crumb", "target"}
    /\ Respond(500)
    /\ UNCHANGED <<apiVars, mainVars, timer, calc, dca>>

WorkerInit ==
    /\ InitRuns
    /\ InitMain
    /\ args = PortfolioArgs
    /\ cache = NoEntry
    /\ calc = NoCalc
    /\ dca = NoCalc
    /\ worker \in { WorkerCall(request) : request \in WorkerRequests }

WorkerNext == WorkerReceives \/ CrumbAnswers \/ TargetAnswers \/ FetchThrows

SpecWorker == WorkerInit /\ [][WorkerNext]_vars

----------------------------------------------------------------------------
(* SpecQuotes: the normalisation of one answer of a backend, by              *)
(* fetchStockQuotes (the API variant) and by the CSV variant of             *)
(* fetchStocksBatched                                                       *)

\* The symbols of the quotes of an answer; "" stands for a quote without one
QuoteSymbols == {"", "AAPL", "O"}

RawAnswers ==
    UNION { [1..n -> { RawQuote(sym) : sym \in QuoteSymbols }] : n \in 0..MaxQuotes }

\* The rows parseCSV gives: the texts of the columns Ticker and Price
CsvRows == [Ticker : QuoteSymbols, Price : {"", "0", "100", "n/a"}]

ParsedCsvs == UNION { [1..n -> CsvRows] : n \in 0..MaxQuotes }

\* parseFloat(row.Price || 0)
ParseFloat(text) ==
    IF text = "100" THEN [nan |-> FALSE, v |-> 100]
    ELSE IF text \in {"", "0"} THEN [nan |-> FALSE, v |-> 0]
    ELSE [nan |-> TRUE, v |-> 0]

\* Lines 539-553: the mapping of one row
MapRow(row) ==
    [ticker |-> row.Ticker, price |-> ParseFloat(row.Price),
     exDividendDate |-> NullDate, dividendDate |-> NullDate]

\* Lines 557-561: the filter of validData
ValidRow(stock) ==
    /\ stock.ticker # ""
    /\ Len(stock.ticker) > 0
    /\ ~stock.price.nan /\ stock.price.v > 0

MapCsv(parsedData) ==
    SelectSeq([k \in 1..Len(parsedData) |-> MapRow(parsedData[k])], ValidRow)

QuotesInit ==
    /\ InitRuns
    /\ InitMain
    /\ args = PortfolioArgs
    /\ cache = NoEntry
    /\ dca = NoCalc
    /\ worker = NoCalc
    /\ calc \in { [fn |-> "fetchStockQuotes", input |-> a, out |-> <<>>, done |-> FALSE] :
                      a \in RawAnswers }
               \cup
               { [fn |-> "csv", input |-> a, out |-> <<>>, done |-> FALSE] :
                      a \in ParsedCsvs }

\* fetchStockQuotes, lines 159-178: the answer is mapped and returned
NormalizeQuotes ==
    /\ calc.fn = "fetchStockQuotes"
    /\ ~calc.done
    /\ calc' = [calc EXCEPT !.out = MapQuotes(calc.input), !.done = TRUE]
    /\ UNCHANGED <<apiVars, mainVars, timer, dca, worker>>

\* The CSV variant, lines 539-569: the rows are mapped, filtered and returned
NormalizeCsv ==
    /\ calc.fn = "csv"
    /\ ~calc.done
    /\ calc' = [calc EXCEPT !.out = MapCsv(calc.input), !.done = TRUE]
    /\ UNCHANGED <<apiVars, mainVars, timer, dca, worker>>

QuotesNext == NormalizeQuotes \/ NormalizeCsv

SpecQuotes == QuotesInit /\ [][QuotesNext]_vars

----------------------------------------------------------------------------
(* SpecStats: calculatePortfolioStats on a list of records                  *)

\* Line 275: the filter of validStocks
IsValidStockNonNegative(stock) == stock.price >= 0
IsValidStock(stock) == stock.price > 0

\* The sums of lines 289, 292 and 295.  The prices, yields (in percent) and
\* dividends of the model are integers, none of them 0 unless it is the
\* number 0, so that (x || 0) is x
RECURSIVE SumField(_, _)
SumField(stocks, field) ==
    IF stocks = <<>> THEN 0
    ELSE Head(stocks)[field] + SumField(Tail(stocks), field)

\* A quotient of two numbers, kept as the pair
Quotient(total, n) == [num |-> total, den |-> n]
Zero == [num |-> 0, den |-> 1]

NoStock == [ticker |-> "", price |-> 0, dividendYield |-> 0, dividend |-> 0, sector |-> ""]
NullTop == [null |-> TRUE, stock |-> NoStock]

\* Line 299: the step of the reduce; top?.dividendYield || 0 is 0 for null
Better(stock, top) ==
    stock.dividendYield > (IF top.null THEN 0 ELSE top.stock.dividendYield)

\* Lines 298-300
RECURSIVE TopYielder(_, _)
TopYielder(stocks, top) ==
    IF stocks = <<>> THEN top
    ELSE TopYielder(Tail(stocks),
                    IF Better(Head(stocks), top)
                    THEN [null |-> FALSE, stock |-> Head(stocks)]
                    ELSE top)

\* Line 304
SectorOf(stock) == IF stock.sector = "" THEN "Unknown" ELSE stock.sector

\* Line 305: acc[sector] = (acc[sector] || 0) + 1
TallyOnce(acc, sector) ==
    [x \in DOMAIN acc \cup {sector} |-> IF x = sector THEN 1 ELSE acc[x]]
Tally(acc, sector) ==
    [x \in DOMAIN acc \cup {sector} |->
        IF x = sector
        THEN (IF sector \in DOMAIN acc THEN acc[sector] ELSE 0) + 1
        ELSE acc[x]]

\* Lines 303-307
RECURSIVE SectorDistribution(_, _)
SectorDistribution(stocks, acc) ==
    IF stocks = <<>> THEN acc
    ELSE SectorDistribution(Tail(stocks), Tally(acc, SectorOf(Head(stocks))))

calculatePortfolioStats(stocks) ==
    LET validStocks == SelectSeq(stocks, IsValidStock)
    IN  IF Len(validStocks) = 0
        THEN [totalStocks |-> 0, avgYield |-> Zero, avgPrice |-> Zero,
              totalDividend |-> 0, topYielder |-> NullTop,
              sectorDistribution |-> <<>>]
        ELSE [totalStocks |-> Len(validStocks),
              avgYield |-> Quotient(SumField(validStocks, "dividendYield"), Len(validStocks)),
              avgPrice |-> Quotient(SumField(validStocks, "price"), Len(validStocks)),
              totalDividend |-> SumField(validStocks, "dividend"),
              topYielder |-> TopYielder(validStocks, NullTop),
              sectorDistribution |-> SectorDistribution(validStocks, <<>>)]

\* The records of the model: a stock without yield pays no dividend
StockAttrs ==
    [price : {-10, 0, 100}, dividendYield : {0, 3, 5}, sector : {"", "Tech"}]

\* The list whose k-th record has the k-th ticker and the attributes a[k]
StockList(a) ==
    [k \in DOMAIN a |->
        [ticker |-> PortfolioTickers[k],
         price |-> a[k].price,
         dividendYield |-> a[k].dividendYield,
         dividend |-> IF a[k].dividendYield = 0 THEN 0 ELSE 2,
         sector |-> a[k].sector]]

StatsInit ==
    /\ InitRuns
    /\ InitMain
    /\ args = PortfolioArgs
    /\ cache = NoEntry
    /\ dca = NoCalc
    /\ worker = NoCalc
    /\ \E n \in 0..MaxStocks : \E a \in [1..n -> StockAttrs] :
          calc = [fn |-> "calculatePortfolioStats", input |-> StockList(a),
                  out |-> calculatePortfolioStats(<<>>), done |-> FALSE]

CalculateStats ==
    /\ calc.fn = "calculatePortfolioStats"
    /\ ~calc.done
    /\ calc' = [calc EXCEPT !.out = calculatePortfolioStats(calc.input), !.done = TRUE]
    /\ UNCHANGED <<apiVars, mainVars, timer, dca, worker>>

StatsNext == CalculateStats

SpecStats == StatsInit /\ [][StatsNext]_vars

----------------------------------------------------------------------------
(* Properties of fetchStocksBatched and of the cache *)

\* What a run's log says
Events(rr, e, chunk) ==
    { k \in 1..Len(rr.log) : rr.log[k].e = e /\ rr.log[k].chunk = chunk }
Requests(rr) == { k \in 1..Len(rr.log) : rr.log[k].e = "req" }
Chunks(rr) == 0..(Len(rr.batches) - 1)
Exhausted(rr, chunk) ==
    /\ rr.retries > 0
    /\ Cardinality(Events(rr, "fail", chunk)) = rr.retries
Succeeded(rr, chunk) == Events(rr, "ok", chunk) # {}

RECURSIVE Concat(_)
Concat(ss) == IF ss = <<>> THEN <<>> ELSE Head(ss) \o Concat(Tail(ss))

\* The data of the chunks that succeeded, in the order of the log
OkData(rr) ==
    LET oks == SelectSeq(rr.log, LAMBDA ev : ev.e = "ok")
    IN  Concat([k \in 1..Len(oks) |-> oks[k].data])

\* The call went to the network and has returned
NetDone(rr) == rr.pc = "done" /\ rr.net

\* The slot held a fresh entry when the call was made
FreshAtStart(rr) ==
    /\ rr.cacheAtStart.kind = "entry"
    /\ rr.startAt - rr.cacheAtStart.timestamp < CACHE_DURATION

\* C1: a call with forceRefresh = false made while the slot holds an entry
\* younger than CACHE_DURATION returns that entry's data and sends no request
\* to the quote source.
C1_FreshCacheServed ==
    \A r \in Runs :
        LET rr == run[r] IN
        (rr.pc # "idle" /\ ~rr.forceRefresh /\ FreshAtStart(rr))
            => /\ rr.pc = "done"
               /\ ~rr.raised
               /\ rr.ret = rr.cacheAtStart.data
               /\ Requests(rr) = {}

C1_Witness ==
    \E r \in Runs :
        /\ run[r].pc = "done" /\ ~run[r].forceRefresh /\ FreshAtStart(run[r])
        /\ Len(run[r].ret) = 2
        /\ run[r].startAt > run[r].cacheAtStart.timestamp

\* C2: each chunk is requested at most retries times, no request for a chunk
\* follows its first success, and a chunk whose retries attempts all failed
\* contributes no record while every later chunk is still requested.
C2_BoundedRetries ==
    \A r \in Runs :
        LET rr == run[r] IN
        \A c \in Chunks(rr) :
            /\ Cardinality(Events(rr, "req", c)) <= rr.retries
            /\ \A k \in Events(rr, "ok", c) :
                   \A j \in Events(rr, "req", c) : j < k
            /\ Cardinality(Events(rr, "ok", c)) <= 1
            /\ Exhausted(rr, c) =>
                   /\ ~Succeeded(rr, c)
                   /\ \A k \in 1..Len(rr.results) :
                          \A m \in 1..Len(rr.batches[c + 1]) :
                              rr.results[k].ticker # rr.batches[c + 1][m]
                   /\ rr.pc = "done" =>
                          /\ \A d \in Chunks(rr) : d > c => Events(rr, "req", d) # {}
                          /\ \A k \in 1..Len(rr.ret) :
                                 \A m \in 1..Len(rr.batches[c + 1]) :
                                     rr.ret[k].ticker # rr.batches[c + 1][m]

C2_Witness ==
    \E r \in Runs :
        /\ NetDone(run[r])
        /\ Len(run[r].batches) = 2
        /\ run[r].retries = 3
        /\ Exhausted(run[r], 0)
        /\ Succeeded(run[r], 1)
        /\ Len(run[r].ret) = 1

\* C3: for batchSize b > 0 the ticker list T is split into ceil(|T|/b)
\* consecutive chunks of at most b tickers in the original order, and the
\* sequence returned is the concatenation, in chunk order, of the results of
\* the chunks that succeeded.
C3_ChunksAndOrder ==
    \A r \in Runs :
        LET rr == run[r]
            b == rr.batchSize
        IN  (rr.net /\ rr.pc # "split" /\ b > 0) =>
                /\ Len(rr.batches) = (Len(rr.tickers) + b - 1) \div b
                /\ \A c \in Chunks(rr) :
                       /\ Len(rr.batches[c + 1]) >= 1
                       /\ Len(rr.batches[c + 1]) <= b
                /\ Concat(rr.batches) = rr.tickers
                /\ \A j, k \in 1..Len(rr.log) :
                       (j < k /\ rr.log[j].e = "ok" /\ rr.log[k].e = "ok")
                           => rr.log[j].chunk < rr.log[k].chunk
                /\ rr.results = OkData(rr)
                /\ rr.pc = "done" => rr.ret = OkData(rr)

C3_Witness ==
    \E r \in Runs :
        /\ NetDone(run[r])
        /\ run[r].batchSize = 1
        /\ Len(run[r].tickers) = 2
        /\ Succeeded(run[r], 0) /\ Succeeded(run[r], 1)
        /\ Len(run[r].ret) = 2

C6_BadBatchSizeRejected ==
    \A r \in Runs :
        LET rr == run[r] IN
        (rr.net /\ rr.batchSize <= 0 /\ rr.tickers # <<>>) =>
            /\ rr.pc = "done" /\ rr.raised
            /\ Len(rr.batches) <= Len(rr.tickers)

\* C7: in the four-hour slot and in the one-hour dashboard slot, the cache
\* read returns absent exactly when no entry is stored or the entry's age is
\* at least the duration; an entry aged exactly the duration is stale.
C7_StaleAtDuration ==
    /\ getCachedData.null <=>
           (cache.kind = "absent" \/ now - cache.timestamp >= CACHE_DURATION)
    /\ loadFromCache.null <=>
           (dash.kind = "absent" \/ now - dash.timestamp >= CACHE_EXPIRY)

\* C8: with an entry stored, getTimeUntilNextUpdate returns null exactly when
\* now - timestamp >= CACHE_DURATION, and otherwise CACHE_DURATION - (now -
\* timestamp); between writes the value strictly decreases as now advances.
C8_TimeRemaining ==
    /\ [](cache.kind = "entry" =>
            LET res == getTimeUntilNextUpdate IN
            /\ res.null <=> (now - cache.timestamp >= CACHE_DURATION)
            /\ ~res.null =>
                  res.milliseconds = CACHE_DURATION - (now - cache.timestamp))
    /\ [][(/\ cache.kind = "entry" /\ cache' = cache /\ now' > now
           /\ ~getTimeUntilNextUpdate.null /\ ~getTimeUntilNextUpdate'.null)
              => getTimeUntilNextUpdate'.milliseconds
                     < getTimeUntilNextUpdate.milliseconds]_vars

C8_Witness ==
    /\ cache.kind = "entry"
    /\ now - cache.timestamp = CACHE_DURATION
    /\ getTimeUntilNextUpdate.null

\* C9: of two consecutive calls with forceRefresh = false inside one cache
\* window, the first of which wrote the cache from the network, the second
\* sends no request and both return identical data.
C9_SecondCallIdentical ==
    \A r \in Runs :
        LET rr == run[r] IN
        (/\ rr.pc = "done" /\ ~rr.forceRefresh
         /\ prev.valid /\ ~prev.forceRefresh /\ prev.wrote
         /\ FreshAtStart(rr))
            => /\ Requests(rr) = {}
               /\ rr.ret = prev.ret

\* C10: the k-th failed attempt of a chunk, k < retries, is followed by a
\* delay of k * 1000 ms before attempt k + 1 is sent; no delay follows the
\* last failed attempt; the inter-batch delay follows only the success of a
\* chunk that is not the last one.
C10_Delays ==
    \A r \in Runs :
        LET rr == run[r]
            log == rr.log
        IN  \A k \in 1..Len(log) :
              /\ (log[k].e = "fail" /\ log[k].n < rr.retries) =>
                    /\ k + 1 <= Len(log)
                    /\ log[k + 1].e = "backoff"
                    /\ log[k + 1].n = log[k].n * 1000
                    /\ k + 2 <= Len(log) =>
                          /\ log[k + 2].e = "req"
                          /\ log[k + 2].chunk = log[k].chunk
                          /\ log[k + 2].n = log[k].n + 1
                          /\ log[k + 2].at - log[k].at >= log[k].n * 1000
                    /\ k + 2 > Len(log) => rr.pc = "backoff"
              /\ (log[k].e = "fail" /\ log[k].n >= rr.retries) =>
                    (k + 1 <= Len(log) =>
                        /\ log[k + 1].e \notin {"backoff", "pause"}
                        /\ log[k + 1].at = log[k].at)
              /\ log[k].e = "backoff" =>
                    (k > 1 /\ log[k - 1].e = "fail" /\ log[k - 1].n < rr.retries)
              /\ log[k].e = "pause" =>
                    /\ k > 1
                    /\ log[k - 1].e = "ok"
                    /\ log[k - 1].chunk < Len(rr.batches) - 1
                    /\ k + 1 <= Len(log) =>
                          log[k + 1].at - log[k].at >= BATCH_DELAY

C10_Witness ==
    \E r \in Runs :
        LET log == run[r].log IN
        /\ run[r].pc = "done" /\ run[r].retries = 3
        /\ \E k \in 1..Len(log) :
               /\ log[k].e = "fail" /\ log[k].n = 2
               /\ k + 2 <= Len(log)
               /\ log[k + 2].e = "req"
               /\ log[k + 2].at - log[k].at = 2000
        /\ \E k \in 1..Len(log) : log[k].e = "pause"
        /\ \E k \in 1..Len(log) : log[k].e = "fail" /\ log[k].n = 3

\* Within run rr, the first request for chunk c + 1 comes after chunk c
\* succeeded or failed for the last time
SequentialChunks(rr) ==
    \A k \in Requests(rr) :
        (rr.log[k].chunk > 0 /\ rr.log[k].n = 1) =>
            \E j \in 1..(k - 1) :
                /\ rr.log[j].chunk = rr.log[k].chunk - 1
                /\ \/ rr.log[j].e = "ok"
                   \/ rr.log[j].e = "fail" /\ ~RetryAgain(rr.log[j].n, rr.retries)

InProgress == { r \in Runs : run[r].pc \notin {"idle", "done"} }

\* C11: chunks of one fetch are requested strictly one after the other, and
\* the dashboard never has two runs of fetchStocksBatched in progress at once
C11_OneFetchAtATime ==
    /\ \A r \in Runs : SequentialChunks(run[r])
    /\ Cardinality(InProgress) <= 1

\* C12: whatever text is in the slot (unparseable, or JSON without data or
\* without timestamp), the read returns absent, getTimeUntilNextUpdate
\* returns null, and a call of fetchStocksBatched goes to the network
IsCorrupt(slot) == slot.kind \in {"unparseable", "nodata", "notimestamp"}

C12_CorruptIsAbsent ==
    /\ IsCorrupt(cache) => getCachedData.null /\ getTimeUntilNextUpdate.null
    /\ \A r \in Runs :
         (run[r].pc # "idle" /\ IsCorrupt(run[r].cacheAtStart) /\ isApiConfigured)
             => run[r].net

\* C13: once the cache window of the last entry has elapsed, the running
\* dashboard eventually starts a network fetch (or a new entry is in the slot)
\* without user action
Expired ==
    /\ cache.kind = "entry"
    /\ Len(cache.data) > 0
    /\ now - cache.timestamp >= CACHE_DURATION

Refetching ==
    \E r \in Runs : /\ run[r].net
                    /\ run[r].pc # "idle"
                    /\ run[r].startAt - cache.timestamp >= CACHE_DURATION

C13_EventuallyRefetched ==
    Expired ~> (~Expired \/ Refetching \/ ncalls = MaxCalls)

\* C14: every record a backend variant returns has a non-empty ticker, and no
\* two records made from one answer share a ticker
C14_TickersUnique ==
    (calc.fn \in {"fetchStockQuotes", "csv"} /\ calc.done) =>
        \A k \in 1..Len(calc.out) :
            /\ calc.out[k].ticker # ""
            /\ \A j \in 1..Len(calc.out) : j # k => calc.out[j].ticker # calc.out[k].ticker

StatsDone == calc.fn = "calculatePortfolioStats" /\ calc.done

\* The positions of the records with price > 0
ValidAt(stocks) == { k \in 1..Len(stocks) : stocks[k].price > 0 }

\* C15: when some record has price > 0, topYielder is the first record, in
\* input order, among those with price > 0 whose yield is the largest
C15_TopYielderIsFirstMax ==
    (StatsDone /\ ValidAt(calc.input) # {}) =>
        \E k \in ValidAt(calc.input) :
            /\ ~calc.out.topYielder.null
            /\ calc.out.topYielder.stock = calc.input[k]
            /\ \A j \in ValidAt(calc.input) :
                 /\ calc.input[j].dividendYield <= calc.input[k].dividendYield
                 /\ calc.input[j].dividendYield = calc.input[k].dividendYield => k <= j

\* C16: when no record has price > 0, the result is the zero-valued object
\* with null topYielder and empty sectorDistribution
C16_EmptyStats ==
    (StatsDone /\ ValidAt(calc.input) = {}) =>
        /\ calc.out.totalStocks = 0
        /\ calc.out.avgYield = Zero
        /\ calc.out.avgPrice = Zero
        /\ calc.out.totalDividend = 0
        /\ calc.out.topYielder.null
        /\ DOMAIN calc.out.sectorDistribution = {}

C16_Witness ==
    /\ StatsDone
    /\ Len(calc.input) = MaxStocks
    /\ ValidAt(calc.input) = {}
    /\ \E k \in 1..Len(calc.input) : calc.input[k].price = 0
    /\ \E k \in 1..Len(calc.input) : calc.input[k].price < 0

RECURSIVE SumCounts(_, _)
SumCounts(dist, keys) ==
    IF keys = {} THEN 0
    ELSE LET x == CHOOSE y \in keys : TRUE
         IN  dist[x] + SumCounts(dist, keys \ {x})

HasPositivePrice(stock) == stock.price > 0

\* C17: records with price <= 0 contribute to nothing: the result is that of
\* the list without them, totalStocks is the number of records with
\* price > 0, and the counts of sectorDistribution add up to totalStocks
C17_InvalidIgnored ==
    StatsDone =>
        /\ calc.out = calculatePortfolioStats(SelectSeq(calc.input, HasPositivePrice))
        /\ calc.out.totalStocks = Cardinality(ValidAt(calc.input))
        /\ SumCounts(calc.out.sectorDistribution, DOMAIN calc.out.sectorDistribution)
               = calc.out.totalStocks

C17_Witness ==
    /\ StatsDone
    /\ Cardinality(ValidAt(calc.input)) = 2
    /\ Len(calc.input) = 3
    /\ \E k \in 1..Len(calc.input) :
         calc.input[k].price <= 0 /\ calc.input[k].dividendYield = 5
    /\ \E x \in DOMAIN calc.out.sectorDistribution : calc.out.sectorDistribution[x] = 2


----------------------------------------------------------------------------
(* calculateDCAScenario                                                     *)

DcaRuns == dca.fn = "calculateDCAScenario"
MonthSimulated == DcaRuns /\ dca.months > 0
StateCreated == DcaRuns /\ dca.pc # "start"

DropTooLarge(params) ==
    \E k \in 1..Len(params.marketCrashes) : Geq(params.marketCrashes[k].drop, Num(1))

InvalidParams(params) ==
    \/ Geq(Num(0), params.currentPrice)
    \/ params.years < 0
    \/ DropTooLarge(params)

\* C18: a call whose parameters have a non-positive starting price, a
\* negative horizon or a crash with drop >= 1 is rejected before any
\* simulation state is created, and no run divides by a zero price or by a
\* negative price.
C18_InvalidRejected ==
    DcaRuns =>
        /\ (InvalidParams(dca.params) /\ StateCreated => dca.rejected)
        /\ ~dca.divByZero
        /\ ~dca.divByNegative

\* C19: at the end of every simulated month, a buffer that reached the
\* threshold after the dividend of the month was converted whole to shares
\* at the price of the month and added to the reinvested total, and is 0;
\* a buffer below the threshold left shares, the reinvested total and
\* itself as they were.
C19_ReinvestWholeBuffer ==
    MonthSimulated =>
        IF Geq(dca.bufferBefore, dca.params.reinvestThreshold)
        THEN /\ dca.shares = Add(dca.afterDCA, Div(dca.bufferBefore, dca.price))
             /\ dca.totalDividendsReinvested = Add(dca.reinvestedBefore, dca.bufferBefore)
             /\ dca.cashBuffer = Num(0)
        ELSE /\ dca.shares = dca.afterDCA
             /\ dca.totalDividendsReinvested = dca.reinvestedBefore
             /\ dca.cashBuffer = dca.bufferBefore

\* A month that ended with a positive buffer exactly at the threshold, after
\* a month that ended with a positive buffer below it
C19_Witness ==
    /\ MonthSimulated
    /\ dca.bufferBefore = dca.params.reinvestThreshold
    /\ Gt(dca.bufferBefore, Num(0))
    /\ IsFinite(dca.price) /\ Gt(dca.price, Num(0))
    /\ Gt(dca.shares, dca.afterDCA)
    /\ dca.cashBuffer = Num(0)
    /\ dca.months > 1

C20_Preconditions(params) ==
    /\ Geq(params.initialInvestment, Num(0))
    /\ Geq(params.monthlyDCA, Num(0))
    /\ Geq(params.currentDividendYield, Num(0))
    /\ Gt(params.currentPrice, Num(0))
    /\ ~DropTooLarge(params)

\* C20: in a run with non-negative initial investment, monthly contribution
\* and yield, a positive starting price and every crash drop below 1, the
\* shares held are non-negative and never fewer than a month before; with
\* monthly contribution 0 and yield 0 they stay initialInvestment /
\* currentPrice.
C20_SharesMonotone ==
    StateCreated /\ C20_Preconditions(dca.params) =>
        /\ Geq(dca.shares, Num(0))
        /\ Geq(dca.shares, dca.prevShares)
        /\ (dca.params.monthlyDCA = Num(0) /\ dca.params.currentDividendYield = Num(0)
              => dca.shares = Div(dca.params.initialInvestment, dca.params.currentPrice))


\* C21: in a run with reinvestThreshold = 0 whose dividends were all >= 0,
\* the cash buffer is 0 at the end of every month, and the dividends
\* reinvested are the dividends received, at the end of every month and so
\* at the end of the horizon.
C21_ImmediateReinvestment ==
    StateCreated /\ dca.params.reinvestThreshold = Num(0) /\ dca.dividendsNonNegative =>
        /\ Eq(dca.cashBuffer, Num(0))
        /\ Eq(dca.totalDividendsReinvested, dca.totalDividendsReceived)

\* The end of a run of two years that paid a dividend every month
C21_Witness ==
    /\ DcaRuns /\ dca.pc = "done" /\ dca.months = 2 * MONTHS_PER_YEAR
    /\ dca.params.reinvestThreshold = Num(0)
    /\ dca.dividendsNonNegative
    /\ IsFinite(dca.monthlyDividend) /\ Gt(dca.monthlyDividend, Num(0))
    /\ Gt(dca.totalDividendsReceived, dca.monthlyDividend)

\* initialInvestment when it is > 0, and monthlyDCA for every simulated
\* month when it is > 0
ExpectedInvested ==
    Add(IF Gt(dca.params.initialInvestment, Num(0)) THEN dca.params.initialInvestment
        ELSE Num(0),
        IF Gt(dca.params.monthlyDCA, Num(0)) THEN Mul(dca.params.monthlyDCA, Num(dca.months))
        ELSE Num(0))

\* C28: after every simulated month, the dividends received are the
\* dividends reinvested plus the cash buffer, and the total invested is the
\* initial investment (when > 0) plus monthlyDCA for each month simulated so
\* far (when > 0).
C28_TotalsBalance ==
    MonthSimulated =>
        /\ Eq(dca.totalDividendsReceived,
              Add(dca.totalDividendsReinvested, dca.cashBuffer))
        /\ Eq(dca.totalInvested, ExpectedInvested)

\* A run with a single crash, of a drop between 0 and 1
SingleCrash ==
    /\ DcaRuns
    /\ Len(dca.params.marketCrashes) = 1
    /\ Gt(dca.params.marketCrashes[1].drop, Num(0))
    /\ Gt(Num(1), dca.params.marketCrashes[1].drop)

StrictlyBetween(x, a, b) == (Gt(x, a) /\ Gt(b, x)) \/ (Gt(a, x) /\ Gt(x, b))

\* The price of the last simulated month is what the crash makes of the
\* undisturbed price of that month
CrashPriceAsStated ==
    LET c == dca.params.marketCrashes[1]
        m == dca.months
        first == (c.year - 1) * 12 + 1
        undisturbed == UndisturbedPrice(dca.params, m)
        dropped == Mul(undisturbed, Sub(Num(1), c.drop))
    IN  IF m = first THEN Eq(dca.price, dropped)
        ELSE IF m > first /\ m < first + c.recoveryMonths
        THEN /\ StrictlyBetween(dca.price, dropped, undisturbed)
             /\ Eq(Sub(dca.price, dropped),
                   Mul(Sub(undisturbed, dropped), Fin(m - first, c.recoveryMonths)))
        ELSE Eq(dca.price, undisturbed)

C23_SnapshotPrice ==
    DcaRuns =>
        /\ \A i \in 1..Len(dca.yearlyData) :
             Eq(dca.yearlyData[i].price,
                ToFixed2(UndisturbedPrice(dca.params, dca.yearlyData[i].year * 12)))
        /\ dca.pc = "done" =>
             Eq(dca.finalPrice, ToFixed2(UndisturbedPrice(dca.params, dca.params.years * 12)))


----------------------------------------------------------------------------
(* cloudflare-worker                                                        *)

\* A piece that ends the host of a URL
EndsHost(piece) == piece \in {"/v7/finance/quote?symbols=AAPL", "/?next="}

\* The host of a URL: the pieces after the scheme, up to the path
RECURSIVE HostPieces(_)
HostPieces(pieces) ==
    IF pieces = <<>> \/ EndsHost(Head(pieces)) THEN <<>>
    ELSE <<Head(pieces)>> \o HostPieces(Tail(pieces))

Host(text) == IF text = <<>> THEN <<>> ELSE HostPieces(Tail(text))

AllowedByHost(targetUrl) == Host(targetUrl) \in {<<QUERY1>>, <<QUERY2>>}

WorkerRuns == worker.fn = "fetch"
Responded == WorkerRuns /\ worker.pc = "responded"
TargetFetched ==
    \E i \in 1..Len(worker.fetched) :
        worker.fetched[i] = worker.request.url.text /\ worker.fetched[i] # CRUMB_URL

\* C24: the worker requests the target only when the host of the parameter
\* url is query1.finance.yahoo.com or query2.finance.yahoo.com; a GET
\* request with a target of any other host is answered 403 and the target is
\* never requested, and a GET request without url is answered 400.
C24_OnlyYahooHosts ==
    WorkerRuns /\ worker.request.method = "GET" =>
        LET url == worker.request.url
        IN  /\ TargetFetched => AllowedByHost(url.text)
            /\ Responded /\ url.present /\ url.text # <<>> /\ ~AllowedByHost(url.text)
                 => worker.status = 403
            /\ Responded /\ ~url.present => worker.status = 400


----------------------------------------------------------------------------
(* The cache slot during and after a run of fetchStocksBatched              *)

\* The writes of single chunks in the log of a run (line 176)
ChunkWrites(rr) ==
    { k \in 1..Len(rr.log) : rr.log[k].e = "write" /\ rr.log[k].chunk < Len(rr.batches) }

\* The slot holds what the run wrote for one chunk
HoldsChunk(rr) ==
    \E k \in ChunkWrites(rr) : cache = CacheEntry(rr.log[k].data, rr.log[k].at)

\* C25: while a run of more than one chunk is in progress, the cache slot
\* never holds an entry made of the records of a single chunk (which a call
\* with forceRefresh = false starting then would return as the portfolio).
C25_NoChunkInCache ==
    \A r \in Runs :
        (run[r].pc \in {"fetching", "backoff", "pause"} /\ Len(run[r].batches) > 1)
            => ~HoldsChunk(run[r])

\* C26: the slot never holds a fresh entry with empty data; a call with
\* forceRefresh = false inside the window, after a call that went to the
\* network and was answered with no records, goes to the network too.
C26_NoEmptyEntry ==
    /\ (cache.kind = "entry" /\ IsFresh(cache, now)) => cache.data # <<>>
    /\ \A r \in Runs :
         LET rr == run[r] IN
         (/\ rr.pc # "idle" /\ ~rr.forceRefresh
          /\ prev.valid /\ prev.wrote /\ prev.ret = <<>>
          /\ FreshAtStart(rr))
             => rr.net

\* C27: when every chunk of a run with forceRefresh = true has exhausted its
\* retries, the cache slot is what it was when the run started, and a cache
\* read gives what it would have given without the run.
C27_FailedRunKeepsCache ==
    \A r \in Runs :
        LET rr == run[r] IN
        (/\ NetDone(rr) /\ rr.forceRefresh
         /\ Chunks(rr) # {}
         /\ \A c \in Chunks(rr) : Exhausted(rr, c))
            => /\ cache = rr.cacheAtStart
               /\ getCachedData = getCachedDataAt(rr.cacheAtStart, now)

\* A forced run of two chunks that all failed, over an entry that is still
\* served
C27_Witness ==
    \E r \in Runs :
        /\ NetDone(run[r]) /\ run[r].forceRefresh
        /\ Len(run[r].batches) = 2
        /\ \A c \in Chunks(run[r]) : Exhausted(run[r], c)
        /\ run[r].cacheAtStart.kind = "entry"
        /\ run[r].cacheAtStart.data # <<>>
        /\ ~getCachedData.null
        /\ getCachedData.data = run[r].cacheAtStart.data


----------------------------------------------------------------------------
(* main.js: the dashboard with the one-hour cache                           *)

\* The activations of fetchFreshData that await their run
InFlight == { r \in Runs : ffd[r].active }

VisiblePanels == { f \in {"loading", "main", "error"} : panel[f] }

C30_OnePanelVisible ==
    (page = "ready" /\ InFlight = {}) => Cardinality(VisiblePanels) = 1

====
